---- MODULE Spec2Model ----
(***************************************************************************)
(* Model of the nqrduck host: module discovery and loading                 *)
(* (MainController.load_modules / _get_modules, Module.__init__,          *)
(* MainModel.add_module) and the signal bus (MainController.               *)
(* dispatch_signals, connected to every Module.nqrduck_signal).            *)
(*                                                                         *)
(* Everything runs on the single Qt UI thread.  nqrduck_signal is          *)
(* connected with the default connection type, so an emit calls            *)
(* dispatch_signals synchronously: a handler that emits while it runs      *)
(* starts a nested dispatch.  The call stack is modelled explicitly.       *)
(*                                                                         *)
(* A module is identified by the index of its entry point in the           *)
(* discovery order; metadata names are taken to be unique (spec section 3: *)
(* ModuleMetadata.name is a unique key), so the dict loaded_modules is the *)
(* sequence of its keys in insertion order.                                *)
(***************************************************************************)
EXTENDS Integers, Sequences, FiniteSets, TLC

\* ---- bounds ----
MaxEntries == 2      \* number of discovered entry points
MaxDispatch == 2     \* number of dispatch_signals calls in one run

\* ---- domains ----
\* What an entry point of the "nqrduck" group resolves to:
\*   view         a Module constructed with Model, Controller and View
\*   headless     a Module constructed with view = None
\*   unresolvable entry_point.load() cannot import the target
\*   ctor_raises  one of the Model/Controller/View constructors raises
\*   no_config    no *.ini file next to the model: __init__ returns -1
EntryKinds == {"view", "headless", "unresolvable", "ctor_raises", "no_config"}

ReservedKeys == {"statusbar_message", "notification"}
Keys == ReservedKeys \cup {"data"}
Values == {"Ready", "Busy"}

VARIABLES
    entries,            \* discovered entry points, in discovery order
    load_state,         \* load_modules: "idle", "loop", "returned",
                        \* "discovery_raised", "on_loading_raised"
    load_idx,           \* position of the for loop of load_modules
    connected,          \* modules whose nqrduck_signal is connected to dispatch_signals
    loaded_modules,     \* MainModel._loaded_modules (keys in insertion order)
    stack,              \* call stack of on_loading / dispatch_signals frames
    statusbar_message,  \* MainModel._statusbar_message
    status_sink,        \* values emitted on statusbar_message_changed
    notifications,      \* values emitted on create_notification_dialog
    alive,              \* the host process has not been terminated
    dispatches,         \* history: one record per dispatch_signals call
    calls,              \* history: process_signals calls in call order
    on_loading_calls,   \* history: number of on_loading calls per module
    wizard_page,        \* DuckWizard: "none" (not opened) or the current page
    catalog,            \* the remote modules.json: name -> [deps, foreign]
    installed_modules,  \* SelectionPage.installed_modules
    modules,            \* SelectionPage.modules (names, in list order)
    checkboxes,         \* SelectionPage.checkboxes: name -> [checked, enabled, manual]
    key_error,          \* history: a slot of the Selection page raised KeyError
    last,               \* history: the last operator click and the state before it
    install_modules,    \* ListInstallPage: the list shown, from get_install_modules
    pages,              \* DuckWizard: the pages that have not been removed
    no_connection,      \* SelectionPage: the "No internet connection" label is shown
    install_thread,     \* InstallThread: [pc, modules, k] of run()
    processes,          \* history: the external processes started, in order
    ui_events,          \* queued signals from the worker thread to the UI thread
    install_output,     \* InstallPage.install_output: the text appended so far
    completed_installation,  \* InstallPage.completed_installation
    threads_started     \* history: number of InstallThread.start() calls

busVars == <<entries, load_state, load_idx, connected, loaded_modules, stack,
             statusbar_message, status_sink, notifications,
             dispatches, calls, on_loading_calls>>

wizVars == <<catalog, installed_modules, modules, checkboxes, key_error,
             last, install_modules, pages, no_connection, install_thread,
             processes, ui_events, install_output, completed_installation,
             threads_started>>

selVars == <<catalog, installed_modules, modules, checkboxes, key_error,
             last, install_modules>>

flowVars == <<pages, no_connection, install_thread, processes, ui_events,
              install_output, completed_installation, threads_started>>

threadVars == <<install_thread, processes, ui_events, install_output,
                completed_installation, threads_started>>

vars == <<entries, load_state, load_idx, connected, loaded_modules, stack,
          statusbar_message, status_sink, notifications, alive,
          dispatches, calls, on_loading_calls, wizard_page, catalog,
          installed_modules, modules, checkboxes, key_error, last, install_modules,
          pages, no_connection, install_thread, processes, ui_events,
          install_output, completed_installation, threads_started>>

\* ---- helpers ----
RECURSIVE SeqsUpTo(_, _)
SeqsUpTo(S, n) ==
    IF n = 0 THEN {<<>>}
    ELSE LET shorter == SeqsUpTo(S, n - 1)
         IN  shorter \cup {Append(s, x) : s \in {t \in shorter : Len(t) = n - 1}, x \in S}

Range(s) == {s[i] : i \in 1..Len(s)}

Front(s) == SubSeq(s, 1, Len(s) - 1)

Top == stack[Len(stack)]

\* Module.__init__ (module.py:27-65): the outcome of constructing the Module
\* an entry point names.  "return -1" from __init__ makes Python raise
\* TypeError, so a missing config file is an exception as well.
ModuleInit(kind) ==
    CASE kind = "ctor_raises" -> "raise"
      [] kind = "no_config"   -> "raise"
      [] OTHER                -> "ok"

\* entry_point.load() (main_controller.py:103): importing the target builds
\* the Module instance.
EntryPointLoad(kind) ==
    IF kind = "unresolvable" THEN "raise" ELSE ModuleInit(kind)

\* MainController._get_modules (main_controller.py:91-109): no entry is
\* handled on its own; the first load that raises propagates (an
\* AttributeError only re-runs the same loads in the fallback branch).
GetModulesRaises(es) == \E i \in 1..Len(es) : EntryPointLoad(es[i]) = "raise"

\* Route without the notification branch of lines 83-86.
RouteForwardsNotification(key) ==
    CASE key = "statusbar_message" -> "statusbar"
      [] OTHER                     -> "forward"

\* The branch taken by the loop body of dispatch_signals
\* (main_controller.py:78-89).
Route(key) ==
    CASE key = "statusbar_message" -> "statusbar"
      [] key = "notification"      -> "notification"
      [] OTHER                     -> "forward"

\* A queued connection: the slot runs after the handlers that are running.
InvokeQueued(stk, f) == <<f>> \o stk

\* A direct (synchronous) signal connection: the slot runs on top of the
\* emitting handler (main_controller.py:45).
Invoke(stk, f) == Append(stk, f)

\* The dispatch frames that are on the stack, with their loop positions.
Enclosing(stk) ==
    {[id |-> stk[i].id, pos |-> stk[i].idx] :
        i \in {j \in 1..Len(stk) : stk[j].kind = "dispatch"}}

\* The module whose handler the top frame is running.
Running ==
    IF Top.kind = "on_loading" THEN Top.module ELSE loaded_modules[Top.idx]

InHandler == stack # <<>> /\ Top.inHandler

\* No operator click on the Selection page is on record.
NoClick == [name |-> "", checked |-> FALSE, before |-> <<>>, unchecked_from |-> <<>>]

\* The pages added by DuckWizard.__init__ (install_wizard.py:42-48), in order.
PageSeq == <<"Welcome", "Selection", "ListInstall", "Install", "Finish">>

\* No InstallThread has been created.
NoThread == [pc |-> "none", modules |-> <<>>, k |-> 0]

\* The wizard pages after construction: all pages present, nothing fetched,
\* InstallPage.completed_installation False (line 357), no thread.
PagesConstructed ==
    /\ pages = Range(PageSeq)
    /\ no_connection = FALSE
    /\ install_thread = NoThread
    /\ processes = <<>>
    /\ ui_events = <<>>
    /\ install_output = <<>>
    /\ completed_installation = FALSE
    /\ threads_started = 0

\* NQRduck.start_application (__main__.py:59): the install wizard is opened
\* when load_modules left no module registered.
WizardNeeded(lm) == lm = <<>>

\* ---- initial state ----
Init ==
    /\ entries \in SeqsUpTo(EntryKinds, MaxEntries)
    /\ load_state = "idle"
    /\ load_idx = 0
    /\ connected = {}
    /\ loaded_modules = <<>>
    /\ stack = <<>>
    /\ statusbar_message = "Ready"          \* main_model.py:159
    /\ status_sink = <<"Ready">>
    /\ notifications = <<>>
    /\ alive = TRUE
    /\ dispatches = <<>>
    /\ calls = <<>>
    /\ on_loading_calls = [i \in 1..Len(entries) |-> 0]
    /\ wizard_page = "none"
    /\ catalog = <<>>
    /\ installed_modules = {}
    /\ modules = <<>>
    /\ checkboxes = <<>>
    /\ key_error = FALSE
    /\ last = NoClick
    /\ install_modules = <<>>
    /\ PagesConstructed

\* ---- load_modules ----

\* A registration that replays the dispatches made so far to the new module.
RECURSIVE CallsOnAddReplayed(_, _, _)
CallsOnAddReplayed(cs, ds, i) ==
    IF ds = <<>> THEN cs
    ELSE LET d == Len(ds)
             rest == CallsOnAddReplayed(cs, Front(ds), i)
         IN  IF ds[d].key \in ReservedKeys THEN rest
             ELSE Append(rest, [module |-> i, id |-> d, key |-> ds[d].key,
                                value |-> ds[d].value, loaded |-> TRUE])

\* MainModel.add_module (main_model.py:179-188) and the loop of lines 43-61:
\* registering module i makes no process_signals call, whatever dispatches
\* ds were made before; the call history cs stays as it is.
CallsOnAdd(cs, ds, i) == cs

\* An add_module that binds a new dict holding only the new module.
AddModuleRebinds(lm, name) == <<name>>

\* MainModel.add_module (main_model.py:186): _loaded_modules[name] = module;
\* the new key comes last in the iteration order of the dict.
AddModule(lm, name) == Append(lm, name)

\* load_modules line 40: _get_modules raises and load_modules with it.
LoadDiscoveryRaises ==
    /\ alive /\ load_state = "idle"
    /\ GetModulesRaises(entries)
    /\ load_state' = "discovery_raised"
    /\ alive' \in BOOLEAN
    /\ UNCHANGED <<entries, load_idx, connected, loaded_modules, stack,
                   statusbar_message, status_sink, notifications,
                   dispatches, calls, on_loading_calls>>
    /\ UNCHANGED <<wizard_page, wizVars>>

\* load_modules line 40: all entries resolved; enter the for loop.
LoadDiscover ==
    /\ alive /\ load_state = "idle"
    /\ ~GetModulesRaises(entries)
    /\ load_state' = "loop"
    /\ load_idx' = 1
    /\ UNCHANGED <<entries, connected, loaded_modules, stack,
                   statusbar_message, status_sink, notifications, alive,
                   dispatches, calls, on_loading_calls>>
    /\ UNCHANGED <<wizard_page, wizVars>>

\* One iteration of the for loop (lines 43-61) up to the call of on_loading.
LoadIteration ==
    /\ alive /\ load_state = "loop" /\ stack = <<>>
    /\ load_idx <= Len(entries)
    /\ connected' = connected \cup {load_idx}                    \* line 45
    /\ load_idx' = load_idx + 1
    /\ IF entries[load_idx] = "headless"
       THEN UNCHANGED <<loaded_modules, stack, on_loading_calls, calls>>   \* lines 47-49
       ELSE /\ loaded_modules' = AddModule(loaded_modules, load_idx)   \* line 56
            /\ calls' = CallsOnAdd(calls, dispatches, load_idx)
            /\ on_loading_calls' =
                   [on_loading_calls EXCEPT ![load_idx] = @ + 1]    \* line 61
            /\ stack' = Append(stack, [kind |-> "on_loading", id |-> 0,
                                       module |-> load_idx, idx |-> 0,
                                       inHandler |-> TRUE])
    /\ UNCHANGED <<entries, load_state, statusbar_message, status_sink,
                   notifications, alive, dispatches>>
    /\ UNCHANGED <<wizard_page, wizVars>>

\* The loop is exhausted: main_view.on_settings_changed() and return (line 63)
\* to start_application, which opens the install wizard on its first page
\* when no module is registered (__main__.py:59-64, install_wizard.py:42).
LoadReturn ==
    /\ alive /\ load_state = "loop" /\ stack = <<>>
    /\ load_idx > Len(entries)
    /\ load_state' = "returned"
    /\ wizard_page' = IF WizardNeeded(loaded_modules) THEN "Welcome" ELSE "none"
    /\ UNCHANGED <<entries, load_idx, connected, loaded_modules, stack,
                   statusbar_message, status_sink, notifications, alive,
                   dispatches, calls, on_loading_calls>>
    /\ UNCHANGED wizVars

\* ---- emitting on nqrduck_signal ----

NewDispatch(m, k, v) ==
    [key |-> k, value |-> v, emitter |-> m, registered |-> loaded_modules,
     status |-> "running", sb |-> 0, nt |-> 0, enclosing |-> Enclosing(stack),
     after_load |-> load_state = "returned",
     on_loading_of |-> IF stack # <<>> /\ Top.kind = "on_loading"
                       THEN Top.module ELSE 0]

NewFrame(m) ==
    [kind |-> "dispatch", id |-> Len(dispatches) + 1, module |-> m,
     idx |-> 1, inHandler |-> FALSE]

\* A connected module emits from the event loop (a timer, a click, a worker
\* result) while no handler is running.
EmitFromEventLoop ==
    /\ alive /\ stack = <<>>
    /\ load_state \in {"returned", "discovery_raised", "on_loading_raised"}
    /\ Len(dispatches) < MaxDispatch
    /\ \E m \in connected, k \in Keys, v \in Values :
          /\ dispatches' = Append(dispatches, NewDispatch(m, k, v))
          /\ stack' = Invoke(stack, NewFrame(m))
    /\ UNCHANGED <<entries, load_state, load_idx, connected, loaded_modules,
                   statusbar_message, status_sink, notifications, alive,
                   calls, on_loading_calls>>
    /\ UNCHANGED <<wizard_page, wizVars>>

\* The running handler (on_loading or process_signals) emits on its own
\* module's nqrduck_signal.
EmitFromHandler ==
    /\ alive /\ InHandler
    /\ Running \in connected
    /\ Len(dispatches) < MaxDispatch
    /\ \E k \in Keys, v \in Values :
          /\ dispatches' = Append(dispatches, NewDispatch(Running, k, v))
          /\ stack' = Invoke(stack, NewFrame(Running))
    /\ UNCHANGED <<entries, load_state, load_idx, connected, loaded_modules,
                   statusbar_message, status_sink, notifications, alive,
                   calls, on_loading_calls>>
    /\ UNCHANGED <<wizard_page, wizVars>>

\* ---- dispatch_signals (main_controller.py:65-89) ----

InDispatch == stack # <<>> /\ Top.kind = "dispatch" /\ ~Top.inHandler

\* The for loop has no (further) module: the call returns.
DispatchReturn ==
    /\ alive /\ InDispatch
    /\ Top.idx > Len(loaded_modules)
    /\ dispatches' = [dispatches EXCEPT ![Top.id].status = "returned"]
    /\ stack' = Front(stack)
    /\ UNCHANGED <<entries, load_state, load_idx, connected, loaded_modules,
                   statusbar_message, status_sink, notifications, alive,
                   calls, on_loading_calls>>
    /\ UNCHANGED <<wizard_page, wizVars>>

\* Loop body, lines 78-81: set the status bar message and break.
DispatchStatusbar ==
    /\ alive /\ InDispatch
    /\ Top.idx <= Len(loaded_modules)
    /\ Route(dispatches[Top.id].key) = "statusbar"
    /\ statusbar_message' = dispatches[Top.id].value
    /\ status_sink' = Append(status_sink, dispatches[Top.id].value)
    /\ dispatches' = [dispatches EXCEPT ![Top.id].status = "returned",
                                        ![Top.id].sb = @ + 1]
    /\ stack' = Front(stack)
    /\ UNCHANGED <<entries, load_state, load_idx, connected, loaded_modules,
                   notifications, alive, calls, on_loading_calls>>
    /\ UNCHANGED <<wizard_page, wizVars>>

\* Loop body, lines 83-86: emit create_notification_dialog and break.
DispatchNotification ==
    /\ alive /\ InDispatch
    /\ Top.idx <= Len(loaded_modules)
    /\ Route(dispatches[Top.id].key) = "notification"
    /\ notifications' = Append(notifications, dispatches[Top.id].value)
    /\ dispatches' = [dispatches EXCEPT ![Top.id].status = "returned",
                                        ![Top.id].nt = @ + 1]
    /\ stack' = Front(stack)
    /\ UNCHANGED <<entries, load_state, load_idx, connected, loaded_modules,
                   statusbar_message, status_sink, alive, calls,
                   on_loading_calls>>
    /\ UNCHANGED <<wizard_page, wizVars>>

\* Loop body, line 89: call process_signals of the module at the loop position.
DispatchForward ==
    /\ alive /\ InDispatch
    /\ Top.idx <= Len(loaded_modules)
    /\ Route(dispatches[Top.id].key) = "forward"
    /\ calls' = Append(calls, [module |-> loaded_modules[Top.idx],
                               id |-> Top.id,
                               key |-> dispatches[Top.id].key,
                               value |-> dispatches[Top.id].value,
                               loaded |-> on_loading_calls[loaded_modules[Top.idx]] > 0])
    /\ stack' = [stack EXCEPT ![Len(stack)].inHandler = TRUE]
    /\ UNCHANGED <<entries, load_state, load_idx, connected, loaded_modules,
                   statusbar_message, status_sink, notifications, alive,
                   dispatches, on_loading_calls>>
    /\ UNCHANGED <<wizard_page, wizVars>>

\* ---- handlers: ModuleController.on_loading / process_signals ----

\* The running handler returns normally.
HandlerReturn ==
    /\ alive /\ InHandler
    /\ stack' = IF Top.kind = "on_loading"
                THEN Front(stack)
                ELSE [stack EXCEPT ![Len(stack)].inHandler = FALSE,
                                   ![Len(stack)].idx = @ + 1]
    /\ UNCHANGED <<entries, load_state, load_idx, connected, loaded_modules,
                   statusbar_message, status_sink, notifications, alive,
                   dispatches, calls, on_loading_calls>>
    /\ UNCHANGED <<wizard_page, wizVars>>

\* The running handler raises.  Nothing in dispatch_signals (line 89) or
\* load_modules (line 61) catches it: the exception leaves the function and
\* reaches the slot boundary, where either the installed sys.excepthook
\* (__main__.py:118-151) handles it and the emitter goes on, or the process
\* is terminated.
HandlerRaise ==
    /\ alive /\ InHandler
    /\ stack' = Front(stack)
    /\ IF Top.kind = "on_loading"
       THEN /\ load_state' = "on_loading_raised"
            /\ UNCHANGED dispatches
       ELSE /\ dispatches' = [dispatches EXCEPT ![Top.id].status = "raised"]
            /\ UNCHANGED load_state
    /\ alive' \in BOOLEAN
    /\ UNCHANGED <<entries, load_idx, connected, loaded_modules,
                   statusbar_message, status_sink, notifications,
                   calls, on_loading_calls>>
    /\ UNCHANGED <<wizard_page, wizVars>>

Next ==
    \/ LoadDiscoveryRaises
    \/ LoadDiscover
    \/ LoadIteration
    \/ LoadReturn
    \/ EmitFromEventLoop
    \/ EmitFromHandler
    \/ DispatchReturn
    \/ DispatchStatusbar
    \/ DispatchNotification
    \/ DispatchForward
    \/ HandlerReturn
    \/ HandlerRaise

Spec == Init /\ [][Next]_vars

\* ======================= properties =======================

DispatchIds == 1..Len(dispatches)

Forwarded(d) == dispatches[d].key \notin ReservedKeys

Finished(d) == dispatches[d].status # "running"

\* The positions in the call history of the process_signals calls that
\* dispatch d made on module m.
CallsOf(d, m) == {i \in 1..Len(calls) : calls[i].id = d /\ calls[i].module = m}

Observed(d, m) == CallsOf(d, m) # {}

CallPos(d, m) == CHOOSE i \in CallsOf(d, m) : TRUE

\* The position of module m in the iteration order of loaded_modules.
PosOf(m) == CHOOSE p \in 1..Len(loaded_modules) : loaded_modules[p] = m

Loadable == {i \in 1..Len(entries) : EntryPointLoad(entries[i]) = "ok"}

Headless == {i \in 1..Len(entries) : entries[i] = "headless"}

\* C1: a dispatch whose key is "statusbar_message" or "notification" never
\* makes a process_signals call: no call in the history carries a reserved key.
C1_ReservedNeverForwarded ==
    \A i \in 1..Len(calls) : calls[i].key \notin ReservedKeys

\* A reserved-key dispatch has run to its end while modules were registered.
C1_Witness ==
    \E d \in DispatchIds :
        /\ ~Forwarded(d)
        /\ dispatches[d].status = "returned"
        /\ Len(dispatches[d].registered) >= 2

\* C2: once a dispatch with a non-reserved key is over, every module that was
\* in loaded_modules when it began has received exactly one process_signals
\* call for it, with the dispatched key and value.
C2_EveryRegisteredReceivesOnce ==
    \A d \in DispatchIds :
        (Forwarded(d) /\ Finished(d)) =>
            \A m \in Range(dispatches[d].registered) :
                /\ Cardinality(CallsOf(d, m)) = 1
                /\ \A i \in CallsOf(d, m) :
                       /\ calls[i].key = dispatches[d].key
                       /\ calls[i].value = dispatches[d].value

\* C3: once a dispatch of ("statusbar_message", v) is over, it has set the
\* status text to v and notified the status sink exactly once.
C3_StatusbarSetOnce ==
    \A d \in DispatchIds :
        (dispatches[d].key = "statusbar_message" /\ Finished(d)) =>
            dispatches[d].sb = 1

\* C4: once a dispatch of ("notification", value) is over, it has emitted
\* create_notification_dialog exactly once.
C4_NotificationRaisedOnce ==
    \A d \in DispatchIds :
        (dispatches[d].key = "notification" /\ Finished(d)) =>
            dispatches[d].nt = 1

\* C5: when a process_signals call raised during a non-reserved dispatch,
\* every module registered at that dispatch has still received its call.
C5_RaiseDoesNotAbortDelivery ==
    \A d \in DispatchIds :
        (Forwarded(d) /\ dispatches[d].status = "raised") =>
            \A m \in Range(dispatches[d].registered) : Observed(d, m)

C7_OneModulePerValidEntry ==
    load_state = "returned" =>
        /\ \A i \in Loadable :
               Cardinality({p \in 1..Len(loaded_modules) : loaded_modules[p] = i}) = 1
        /\ Range(loaded_modules) \subseteq Loadable
        /\ (Loadable # {} => loaded_modules # <<>>)

\* C8: when a discovered entry fails, load_modules does not raise because of
\* it, and once loading is over every other entry is connected and registered.
C8_BadEntrySkipped ==
    (Loadable # 1..Len(entries)) =>
        /\ load_state # "discovery_raised"
        /\ (load_state = "returned" =>
                \A i \in Loadable : i \in connected /\ i \in Range(loaded_modules))

\* C9: after load_modules has returned, a module without a View is in
\* loaded_modules with its nqrduck_signal connected, and it has received a
\* process_signals call for every non-reserved dispatch that returned since.
C9_HeadlessRegistered ==
    load_state = "returned" =>
        \A i \in Headless :
            /\ i \in connected
            /\ i \in Range(loaded_modules)
            /\ \A d \in DispatchIds :
                   (Forwarded(d) /\ dispatches[d].status = "returned"
                       /\ dispatches[d].after_load) => Observed(d, i)

\* C10: after load_modules has returned, on_loading has been called exactly
\* once on every module of the loop, and no process_signals call was made on
\* a module whose on_loading had not been invoked.
C10_OnLoadingOnceBeforeSignals ==
    /\ load_state = "returned" =>
           \A i \in 1..Len(entries) : on_loading_calls[i] = 1
    /\ \A c \in 1..Len(calls) : calls[c].loaded

\* C11: on_loading runs only on a module that is in loaded_modules and
\* connected, and once a non-reserved dispatch emitted by a module during
\* its own on_loading is over, every module that load_modules handled before
\* the emitter has received it.
C11_OnLoadingSignalsReachEarlierModules ==
    /\ \A f \in 1..Len(stack) :
           stack[f].kind = "on_loading" =>
               /\ stack[f].module \in Range(loaded_modules)
               /\ stack[f].module \in connected
    /\ \A d \in DispatchIds :
           (dispatches[d].on_loading_of # 0 /\ Forwarded(d) /\ Finished(d)) =>
               \A i \in 1..(dispatches[d].on_loading_of - 1) : Observed(d, i)

\* C12: when load_modules has run and left loaded_modules empty, the install
\* wizard is open on its Welcome page.
C12_EmptyLoadOpensWizard ==
    (load_state \in {"returned", "discovery_raised", "on_loading_raised"}
        /\ loaded_modules = <<>>) => wizard_page = "Welcome"

\* The dispatches that were in progress when dispatch d began.
EnclosingIds(d) == {x.id : x \in dispatches[d].enclosing}

C29_NoReplay ==
    /\ \A i \in 1..Len(calls) :
           calls[i].module \in Range(dispatches[calls[i].id].registered)
    /\ \A d \in DispatchIds :
           dispatches[d].on_loading_of # 0 =>
               \A m \in Range(loaded_modules) \ Range(dispatches[d].registered) :
                   ~Observed(d, m)

\* A module was registered after a non-reserved dispatch that an earlier
\* module had emitted during its on_loading and that was delivered; loading
\* is over and the later module has received a later dispatch.
C29_Witness ==
    /\ load_state = "returned"
    /\ \E d, e \in DispatchIds, m \in Range(loaded_modules) :
           /\ dispatches[d].on_loading_of # 0 /\ Forwarded(d)
           /\ dispatches[d].registered # <<>>
           /\ m \notin Range(dispatches[d].registered)
           /\ ~Observed(d, m)
           /\ Observed(e, m)

\* C34: loaded_modules changes only in a step of the for loop of load_modules,
\* and such a step adds one module that was not in it after the modules that
\* were; after load_modules has returned no step of a dispatch or of a
\* handler adds, removes or replaces an entry.
C34_LoadedModulesAppendOnly ==
    [][loaded_modules' # loaded_modules =>
          /\ load_state = "loop"
          /\ \E i \in 1..Len(entries) :
                 /\ i \notin Range(loaded_modules)
                 /\ loaded_modules' = Append(loaded_modules, i)]_vars

\* load_modules has returned with two modules registered, and a dispatch
\* made after the return has delivered to the second of them.
C34_Witness ==
    /\ load_state = "returned"
    /\ Len(loaded_modules) = 2
    /\ \E c \in 1..Len(calls) :
           /\ calls[c].module = loaded_modules[2]
           /\ dispatches[calls[c].id].after_load

\* ================= install wizard: Selection page =================
\* (install_wizard.py, DuckWizard and SelectionPage)
\*
\* The wizard runs on the UI thread of the host.  The host itself opens it
\* with installed_modules = [] (__main__.py:62); installed_modules is a
\* parameter of DuckWizard and is drawn here from the subsets of the catalog.

\* ---- bounds ----
MaxEdges == 3        \* "dependencies" items in the whole catalog
MaxForeign == 1      \* catalog entries whose platform is not sys.platform
MaxInstalled == 1    \* catalog entries named in installed_modules

\* The names of the catalog entries, in the order of modules.json.
NameSeq == <<"core-viz", "dsp-pack", "extra", "pulse-prog">>
Names == Range(NameSeq)

NoDuplicates(q) == \A i, j \in 1..Len(q) : q[i] = q[j] => i = j

\* The orders in which a "dependencies" list can name the entries of S.
Orderings(S) ==
    {q \in SeqsUpTo(S, Cardinality(S)) : Len(q) = Cardinality(S) /\ NoDuplicates(q)}

DependsOn(cat, n, d) == d \in Range(cat[n].deps)

\* Every entry reachable from n through the pairs of E.
RECURSIVE Closure(_, _, _)
Closure(E, S, k) ==
    IF k = 0 THEN S
    ELSE Closure(E, S \cup {d \in Names : \E n \in S : <<n, d>> \in E}, k - 1)

Acyclic(E) ==
    \A n \in Names :
        n \notin Closure(E, {d \in Names : <<n, d>> \in E}, Cardinality(Names))

\* The dependency relations considered: who lists whom.
DependencyGraphs ==
    {E \in SUBSET {p \in Names \X Names : p[1] # p[2]} :
        Cardinality(E) <= MaxEdges /\ Acyclic(E)}

DependencyEdges(cat) == {p \in Names \X Names : DependsOn(cat, p[1], p[2])}

TransitiveDeps(cat, n) ==
    Closure(DependencyEdges(cat), {d \in Names : DependsOn(cat, n, d)},
            Cardinality(Names))

\* The catalog documents considered: name -> [deps, foreign], where deps is
\* the "dependencies" list (absent = empty, get_dependencies lines 285-291)
\* and foreign says that the entry has a "platform" key that differs from
\* sys.platform.
CatalogsOf(E, F) ==
    {cat \in [Names -> UNION {{[deps |-> q, foreign |-> n \in F] :
                                   q \in Orderings({d \in Names : <<n, d>> \in E})} :
                              n \in Names}] :
        \A n \in Names :
            /\ cat[n].foreign = (n \in F)
            /\ Range(cat[n].deps) = {d \in Names : <<n, d>> \in E}}

\* The list comprehension of generate_installation_widgets, lines 114-118.
RECURSIVE PlatformFilter(_, _)
PlatformFilter(cat, mods) ==
    IF mods = <<>> THEN <<>>
    ELSE IF cat[Head(mods)].foreign
         THEN PlatformFilter(cat, Tail(mods))
         ELSE <<Head(mods)>> \o PlatformFilter(cat, Tail(mods))

\* get_dependencies (lines 276-291): the list of the entry of that name in
\* self.modules, [] when there is none.
GetDependencies(mods, n) ==
    IF n \in Range(mods) THEN catalog[n].deps ELSE <<>>

\* any(self.checkboxes[other["name"]].isChecked() for other in self.modules
\*     if dependency_name in other.get("dependencies", []))
\* (lines 237-241 and 251-255), evaluated in list order from position i:
\* "true" at the first checked dependent, "KeyError" at a dependent that has
\* no checkbox, "false" when the list is exhausted.
RECURSIVE AnyDependentChecked(_, _, _, _)
AnyDependentChecked(cb, mods, d, i) ==
    IF i > Len(mods) THEN "false"
    ELSE IF ~DependsOn(catalog, mods[i], d) THEN AnyDependentChecked(cb, mods, d, i + 1)
    ELSE IF mods[i] \notin DOMAIN cb THEN "KeyError"
    ELSE IF cb[mods[i]].checked THEN "true"
    ELSE AnyDependentChecked(cb, mods, d, i + 1)

\* The state a slot works on: the checkboxes, whether the running slot has
\* raised, and whether any slot raised so far.
SlotState(cb) == [cb |-> cb, raised |-> FALSE, err |-> FALSE]

Raise(s) == [s EXCEPT !.raised = TRUE, !.err = TRUE]

\* The test of line 251: the dependency is not installed.
NotInstalled(d) == d \notin installed_modules

RECURSIVE OnCheckboxChanged(_, _, _, _)
RECURSIVE HandleDependencies(_, _, _, _)

\* QCheckBox.setChecked: a change of state emits stateChanged, which runs
\* on_checkbox_changed for that checkbox inside the call.  An exception of
\* that slot ends at the slot boundary: setChecked returns normally.
SetCheckedMarksManual(s, mods, n, v) ==
    IF s.cb[n].checked = v THEN s
    ELSE [OnCheckboxChanged([s EXCEPT !.cb[n].checked = v, !.cb[n].manual = v],
                            mods, n, v)
              EXCEPT !.raised = s.raised]

SetChecked(s, mods, n, v) ==
    IF s.cb[n].checked = v THEN s
    ELSE [OnCheckboxChanged([s EXCEPT !.cb[n].checked = v], mods, n, v)
              EXCEPT !.raised = s.raised]

\* The required state of a dependency (lines 233-245): the state of the
\* dependent, unless the dependency is manually checked or another checked
\* entry depends on it.
RequiredStateIgnoresManual(check_state, manual, others) ==
    check_state \/ others = "true"

RequiredStateIgnoresDependents(check_state, manual, others) ==
    check_state \/ manual

RequiredState(check_state, manual, others) ==
    check_state \/ manual \/ others = "true"

\* can_enable (lines 251-255).
CanEnableUnlessInstalled(d, dependents) ==
    NotInstalled(d)

CanEnable(d, dependents) ==
    NotInstalled(d) /\ dependents = "false"

\* handle_dependency_action (lines 229-257).
HandleDependencyAction(s, mods, d, check_state) ==
    IF d \notin DOMAIN s.cb THEN s
    ELSE LET others == IF check_state \/ s.cb[d].manual
                       THEN "skipped"
                       ELSE AnyDependentChecked(s.cb, mods, d, 1)
         IN  IF others = "KeyError" THEN Raise(s)
             ELSE LET required == RequiredState(check_state, s.cb[d].manual, others)
                      s1 == SetChecked(s, mods, d, required)
                      dependents == IF NotInstalled(d)
                                    THEN AnyDependentChecked(s1.cb, mods, d, 1)
                                    ELSE "skipped"
                  IN  IF dependents = "KeyError" THEN Raise(s1)
                      ELSE [s1 EXCEPT !.cb[d].enabled = CanEnable(d, dependents)]

\* The for loop of lines 260-261 over the list deps.
HandleDependencies(s, mods, deps, check_state) ==
    IF deps = <<>> \/ s.raised THEN s
    ELSE HandleDependencies(HandleDependencyAction(s, mods, Head(deps), check_state),
                            mods, Tail(deps), check_state)

\* on_checkbox_changed (lines 213-261).
OnCheckboxChanged(s, mods, n, is_checked) ==
    HandleDependencies(s, mods, GetDependencies(mods, n), is_checked)

\* on_checkbox_clicked (lines 263-274).
OnCheckboxClicked(cb, n, state) == [cb EXCEPT ![n].manual = state]

\* The for loop of generate_installation_widgets (lines 120-160) over the
\* filtered list, from position i.  The checkbox of an installed entry is
\* checked (its stateChanged slot runs while the checkbox is not yet in
\* self.checkboxes) and disabled before it is stored.
RECURSIVE GenerateWidgets(_, _, _)
GenerateWidgets(s, mods, i) ==
    IF i > Len(mods) THEN s
    ELSE LET n == mods[i]
             inst == n \in installed_modules
             s1 == IF inst
                   THEN [OnCheckboxChanged(s, mods, n, TRUE) EXCEPT !.raised = FALSE]
                   ELSE s
             box == [checked |-> inst, enabled |-> ~inst, manual |-> FALSE]
         IN  GenerateWidgets([s1 EXCEPT !.cb = (n :> box) @@ s1.cb], mods, i + 1)

\* get_install_modules (lines 329-343), over the checkboxes in insertion
\* order, which is the order of the catalog.
RECURSIVE GetInstallModules(_, _)
RECURSIVE GetCheckedModules(_, _)
GetCheckedModules(cb, order) ==
    IF order = <<>> THEN <<>>
    ELSE LET n == Head(order)
             rest == GetCheckedModules(cb, Tail(order))
         IN  IF n \in DOMAIN cb /\ cb[n].checked THEN <<n>> \o rest ELSE rest

GetInstallModules(cb, order) ==
    IF order = <<>> THEN <<>>
    ELSE LET n == Head(order)
             rest == GetInstallModules(cb, Tail(order))
         IN  IF n \in DOMAIN cb /\ cb[n].checked /\ n \notin installed_modules
             THEN <<n>> \o rest
             ELSE rest

\* ---- the wizard as opened by start_application ----
WizardInit ==
    /\ entries = <<>>
    /\ load_state = "returned"
    /\ load_idx = 1
    /\ connected = {}
    /\ loaded_modules = <<>>
    /\ stack = <<>>
    /\ statusbar_message = "Ready"
    /\ status_sink = <<"Ready">>
    /\ notifications = <<>>
    /\ alive = TRUE
    /\ dispatches = <<>>
    /\ calls = <<>>
    /\ on_loading_calls = <<>>
    /\ wizard_page = "Welcome"
    /\ \E E \in DependencyGraphs :
           \E F \in {S \in SUBSET Names : Cardinality(S) <= MaxForeign} :
               catalog \in CatalogsOf(E, F)
    /\ installed_modules \in {S \in SUBSET Names : Cardinality(S) <= MaxInstalled}
    /\ modules = <<>>
    /\ checkboxes = <<>>
    /\ key_error = FALSE
    /\ last = NoClick
    /\ install_modules = <<>>
    /\ PagesConstructed

\* An exception that reached a slot boundary is handled by sys.excepthook
\* and the wizard goes on, or the process is terminated.
AfterSlots(s) ==
    /\ key_error' = (key_error \/ s.err)
    /\ alive' \in IF s.err THEN BOOLEAN ELSE {TRUE}

\* SelectionInitializePage without the test of line 167: the widgets are
\* generated again on every initialisation.
SelectionInitializeRegenerates ==
    /\ alive /\ wizard_page = "Welcome"
    /\ wizard_page' = "Selection"
    /\ LET mods == PlatformFilter(catalog, NameSeq)
           s == GenerateWidgets(SlotState(<<>>), mods, 1)
       IN  /\ modules' = mods
           /\ checkboxes' = s.cb
           /\ AfterSlots(s)
    /\ last' = NoClick
    /\ UNCHANGED <<busVars, catalog, installed_modules, install_modules>>
    /\ UNCHANGED flowVars

\* Next on the Welcome page: SelectionPage.initializePage (lines 162-168)
\* with a catalog that could be fetched.
SelectionInitializePage ==
    /\ alive /\ wizard_page = "Welcome"
    /\ wizard_page' = "Selection"
    /\ IF DOMAIN checkboxes = {}
       THEN LET mods == PlatformFilter(catalog, NameSeq)
                s == GenerateWidgets(SlotState(checkboxes), mods, 1)
            IN  /\ modules' = mods
                /\ checkboxes' = s.cb
                /\ AfterSlots(s)
       ELSE /\ modules' = NameSeq
            /\ UNCHANGED <<checkboxes, key_error, alive>>
    /\ last' = NoClick
    /\ UNCHANGED <<busVars, catalog, installed_modules, install_modules>>
    /\ UNCHANGED flowVars

\* Back on the Selection page.
SelectionBack ==
    /\ alive /\ wizard_page = "Selection"
    /\ "ListInstall" \in pages
    /\ wizard_page' = "Welcome"
    /\ last' = NoClick
    /\ UNCHANGED <<busVars, alive, catalog, installed_modules, modules,
                   checkboxes, key_error, install_modules>>
    /\ UNCHANGED flowVars

\* The operator clicks an enabled checkbox: the check state is toggled,
\* stateChanged runs on_checkbox_changed, then clicked runs
\* on_checkbox_clicked.
ClickCheckbox ==
    /\ alive /\ wizard_page = "Selection"
    /\ \E n \in DOMAIN checkboxes :
          /\ checkboxes[n].enabled
          /\ LET v == ~checkboxes[n].checked
                 s == OnCheckboxChanged(
                          SlotState([checkboxes EXCEPT ![n].checked = v]),
                          modules, n, v)
             IN  /\ checkboxes' = OnCheckboxClicked(s.cb, n, v)
                 /\ AfterSlots(s)
                 /\ last' = [name |-> n, checked |-> v, before |-> checkboxes,
                             unchecked_from |->
                                 IF v /\ last.name = n /\ ~last.checked
                                 THEN last.before ELSE <<>>]
    /\ UNCHANGED <<busVars, wizard_page, catalog, installed_modules, modules,
                   install_modules>>
    /\ UNCHANGED flowVars

\* Next on the Selection page: ListInstallPage.initializePage (lines 311-321)
\* lists what get_install_modules returns.
ListInstallInitializePage ==
    /\ alive /\ wizard_page = "Selection"
    /\ "ListInstall" \in pages
    /\ wizard_page' = "ListInstall"
    /\ install_modules' = GetInstallModules(checkboxes, NameSeq)
    /\ last' = NoClick
    /\ UNCHANGED <<busVars, alive, catalog, installed_modules, modules,
                   checkboxes, key_error>>
    /\ UNCHANGED flowVars

\* ListInstallBack of a wizard whose ListInstall page is no commit page
\* (without line 306): Back is offered on the Install page too.
ListInstallBackNotCommit ==
    /\ alive /\ wizard_page \in {"ListInstall", "Install"}
    /\ wizard_page' = IF wizard_page = "Install" THEN "ListInstall"
                                                 ELSE "Selection"
    /\ install_modules' = <<>>
    /\ UNCHANGED <<busVars, alive, catalog, installed_modules, modules,
                   checkboxes, key_error, last>>
    /\ UNCHANGED flowVars

\* Back on the ListInstall page: cleanupPage (lines 323-327) removes the
\* list; the Selection page is shown as it was left.
ListInstallBack ==
    /\ alive /\ wizard_page = "ListInstall"
    /\ wizard_page' = "Selection"
    /\ install_modules' = <<>>
    /\ UNCHANGED <<busVars, alive, catalog, installed_modules, modules,
                   checkboxes, key_error, last>>
    /\ UNCHANGED flowVars

WizardNext ==
    \/ SelectionInitializePage
    \/ SelectionBack
    \/ ClickCheckbox
    \/ ListInstallInitializePage
    \/ ListInstallBack

WizardSpec == WizardInit /\ [][WizardNext]_vars

\* ================= install wizard: page flow and InstallThread =================
\* (install_wizard.py, DuckWizard, InstallPage and InstallPage.InstallThread)

\* ---- bounds ----
MaxLines == 2        \* readyRead notifications of the external processes

\* The catalog of end-to-end scenario A, followed by two entries without
\* dependencies.
ScenarioCatalog ==
    [n \in Names |->
        [deps |-> IF n = "dsp-pack" THEN <<"core-viz">> ELSE <<>>,
         foreign |-> FALSE]]

FlowInit ==
    /\ entries = <<>>
    /\ load_state = "returned"
    /\ load_idx = 1
    /\ connected = {}
    /\ loaded_modules = <<>>
    /\ stack = <<>>
    /\ statusbar_message = "Ready"
    /\ status_sink = <<"Ready">>
    /\ notifications = <<>>
    /\ alive = TRUE
    /\ dispatches = <<>>
    /\ calls = <<>>
    /\ on_loading_calls = <<>>
    /\ wizard_page = "Welcome"
    /\ catalog = ScenarioCatalog
    /\ installed_modules \in {S \in SUBSET Names : Cardinality(S) <= MaxInstalled}
    /\ modules = <<>>
    /\ checkboxes = <<>>
    /\ key_error = FALSE
    /\ last = NoClick
    /\ install_modules = <<>>
    /\ PagesConstructed

\* SelectionInitializeNoConnection without the removePage calls of lines
\* 178-180.
SelectionInitializeKeepsPages ==
    /\ alive /\ wizard_page = "Welcome"
    /\ wizard_page' = "Selection"
    /\ no_connection' = TRUE
    /\ last' = NoClick
    /\ UNCHANGED <<busVars, alive, catalog, installed_modules, modules,
                   checkboxes, key_error, install_modules, pages, threadVars>>

\* Next on the Welcome page when get_modules raises URLError:
\* SelectionPage.initializePage, lines 165 and 169-180.
SelectionInitializeNoConnection ==
    /\ alive /\ wizard_page = "Welcome"
    /\ wizard_page' = "Selection"
    /\ no_connection' = TRUE                                   \* lines 172-175
    /\ pages' = pages \ {"ListInstall", "Install", "Finish"}   \* lines 178-180
    /\ last' = NoClick
    /\ UNCHANGED <<busVars, alive, catalog, installed_modules, modules,
                   checkboxes, key_error, install_modules, threadVars>>

\* Commit on the ListInstall page: InstallPage.initializePage (lines 363-380)
\* creates the thread with the list get_install_modules returns and starts it.
InstallInitializePage ==
    /\ alive /\ wizard_page = "ListInstall"
    /\ wizard_page' = "Install"
    /\ install_thread' = [pc |-> "loop",
                          modules |-> GetInstallModules(checkboxes, NameSeq),
                          k |-> 1]
    /\ threads_started' = threads_started + 1
    /\ UNCHANGED <<busVars, alive, selVars, pages, no_connection, processes,
                   ui_events, install_output, completed_installation>>

\* The process of the job the thread is at.
CurrentProcess == processes[Len(processes)]

ProcessRunning == processes # <<>> /\ CurrentProcess.state = "running"

\* ThreadStartProcess of a thread that does not wait for the process it
\* started (without line 425).
ThreadStartProcessNoWait ==
    /\ alive /\ install_thread.pc = "loop"
    /\ install_thread.k <= Len(install_thread.modules)
    /\ \E started \in BOOLEAN :
          processes' = Append(processes,
              [module |-> install_thread.modules[install_thread.k],
               state |-> IF started THEN "running" ELSE "failed_to_start",
               code |-> -1])
    /\ install_thread' = [install_thread EXCEPT !.k = @ + 1]
    /\ UNCHANGED <<busVars, alive, wizard_page, selVars, pages, no_connection,
                   ui_events, install_output, completed_installation,
                   threads_started>>

\* InstallThread.run, lines 409-411: process.start("pip", ["install", module])
\* and waitForStarted(); the process is running, or could not be started.
ThreadStartProcess ==
    /\ alive /\ install_thread.pc = "loop"
    /\ install_thread.k <= Len(install_thread.modules)
    /\ \E started \in BOOLEAN :
          processes' = Append(processes,
              [module |-> install_thread.modules[install_thread.k],
               state |-> IF started THEN "running" ELSE "failed_to_start",
               code |-> -1])
    /\ install_thread' = [install_thread EXCEPT !.pc = "wait"]
    /\ UNCHANGED <<busVars, alive, wizard_page, selVars, pages, no_connection,
                   ui_events, install_output, completed_installation,
                   threads_started>>

\* The output lines emitted so far that carried text.
TextLines ==
    Cardinality({i \in 1..Len(ui_events) : ui_events[i].text > 0})
        + Cardinality({i \in 1..Len(install_output) : install_output[i] > 0})

\* The events one readyRead notification puts on the queue (lines 414-423):
\* every lambda connected so far emits output_signal, the first with the text
\* read and the others with the empty string; job k has k lambdas connected.
RECURSIVE OutputEvents(_, _)
OutputEvents(text, k) ==
    IF k = 0 THEN <<>>
    ELSE <<[type |-> "output", text |-> text]>> \o OutputEvents(0, k - 1)

\* waitForFinished(-1), line 425: the running process wrote output.
ProcessOutput ==
    /\ alive /\ install_thread.pc = "wait" /\ ProcessRunning
    /\ TextLines < MaxLines
    /\ ui_events' = ui_events \o OutputEvents(TextLines + 1, install_thread.k)
    /\ UNCHANGED <<busVars, alive, wizard_page, selVars, pages, no_connection,
                   install_thread, processes, install_output,
                   completed_installation, threads_started>>

\* The running external process exits, with a zero or a non-zero code.
ProcessExit ==
    /\ alive /\ ProcessRunning
    /\ \E code \in {0, 1} :
          processes' = [processes EXCEPT ![Len(processes)].state = "exited",
                                         ![Len(processes)].code = code]
    /\ UNCHANGED <<busVars, alive, wizard_page, selVars, pages, no_connection,
                   install_thread, ui_events, install_output,
                   completed_installation, threads_started>>

\* ThreadWaitReturns of a thread that goes on only after a process that
\* exited with code zero.
ThreadWaitReturnsOnSuccess ==
    /\ alive /\ install_thread.pc = "wait" /\ ~ProcessRunning
    /\ CurrentProcess.code = 0
    /\ install_thread' = [install_thread EXCEPT !.pc = "loop", !.k = @ + 1]
    /\ UNCHANGED <<busVars, alive, wizard_page, selVars, pages, no_connection,
                   processes, ui_events, install_output,
                   completed_installation, threads_started>>

\* waitForFinished(-1) returns (line 425): the process has exited or was
\* never started; the for loop goes to the next module.
ThreadWaitReturns ==
    /\ alive /\ install_thread.pc = "wait" /\ ~ProcessRunning
    /\ install_thread' = [install_thread EXCEPT !.pc = "loop", !.k = @ + 1]
    /\ UNCHANGED <<busVars, alive, wizard_page, selVars, pages, no_connection,
                   processes, ui_events, install_output,
                   completed_installation, threads_started>>

\* ThreadCompleted with the emit of line 427 inside the for loop: the signal
\* is emitted after the first job.
ThreadCompletedInLoop ==
    /\ alive /\ install_thread.pc = "loop"
    /\ install_thread.k > 1
    /\ ui_events' = Append(ui_events, [type |-> "completed", text |-> 0])
    /\ install_thread' = [install_thread EXCEPT !.pc = "finished"]
    /\ UNCHANGED <<busVars, alive, wizard_page, selVars, pages, no_connection,
                   processes, install_output, completed_installation,
                   threads_started>>

\* ThreadCompleted of a worker that writes the flag of the page itself
\* instead of emitting completed_signal.
ThreadCompletedSetsFlag ==
    /\ alive /\ install_thread.pc = "loop"
    /\ install_thread.k > Len(install_thread.modules)
    /\ completed_installation' = TRUE
    /\ install_thread' = [install_thread EXCEPT !.pc = "finished"]
    /\ UNCHANGED <<busVars, alive, wizard_page, selVars, pages, no_connection,
                   processes, ui_events, install_output, threads_started>>

\* The for loop is exhausted: completed_signal.emit(True), line 427.
ThreadCompleted ==
    /\ alive /\ install_thread.pc = "loop"
    /\ install_thread.k > Len(install_thread.modules)
    /\ ui_events' = Append(ui_events, [type |-> "completed", text |-> 0])
    /\ install_thread' = [install_thread EXCEPT !.pc = "finished"]
    /\ UNCHANGED <<busVars, alive, wizard_page, selVars, pages, no_connection,
                   processes, install_output, completed_installation,
                   threads_started>>

\* UiHandleEvent of an event loop that takes the signal queued last.
UiHandleEventNewestFirst ==
    /\ alive /\ ui_events # <<>>
    /\ ui_events' = Front(ui_events)
    /\ IF ui_events[Len(ui_events)].type = "output"
       THEN /\ install_output' =
                   Append(install_output, ui_events[Len(ui_events)].text)
            /\ UNCHANGED completed_installation
       ELSE /\ completed_installation' = TRUE
            /\ UNCHANGED install_output
    /\ UNCHANGED <<busVars, alive, wizard_page, selVars, pages, no_connection,
                   install_thread, processes, threads_started>>

\* The UI thread handles the next queued signal of the worker:
\* append_output (lines 391-393) or set_completed (lines 382-385).
UiHandleEvent ==
    /\ alive /\ ui_events # <<>>
    /\ ui_events' = Tail(ui_events)
    /\ IF Head(ui_events).type = "output"
       THEN /\ install_output' = Append(install_output, Head(ui_events).text)
            /\ UNCHANGED completed_installation
       ELSE /\ completed_installation' = TRUE
            /\ UNCHANGED install_output
    /\ UNCHANGED <<busVars, alive, wizard_page, selVars, pages, no_connection,
                   install_thread, processes, threads_started>>

\* Next on the Install page, enabled by isComplete (lines 387-389).
InstallNext ==
    /\ alive /\ wizard_page = "Install"
    /\ completed_installation
    /\ wizard_page' = "Finish"
    /\ UNCHANGED <<busVars, alive, selVars, flowVars>>

\* Finish on the last page: the Finish page, or the Selection page after
\* the catalog could not be fetched (setFinalPage, line 175).
WizardAccept ==
    /\ alive
    /\ \/ wizard_page = "Finish"
       \/ wizard_page = "Selection" /\ no_connection
    /\ wizard_page' = "closed"
    /\ UNCHANGED <<busVars, alive, selVars, flowVars>>

\* "Restart NQRduck" on the Finish page (lines 453-457): the wizard is
\* accepted and the process is replaced by a new one.
FinishRestart ==
    /\ alive /\ wizard_page = "Finish"
    /\ wizard_page' = "closed"
    /\ alive' = FALSE
    /\ UNCHANGED <<busVars, selVars, flowVars>>

\* Cancel, or closing the wizard window, on any page.
WizardReject ==
    /\ alive /\ wizard_page \in Range(PageSeq)
    /\ wizard_page' = "closed"
    /\ UNCHANGED <<busVars, alive, selVars, flowVars>>

FlowNext ==
    \/ SelectionInitializePage
    \/ SelectionInitializeNoConnection
    \/ SelectionBack
    \/ ClickCheckbox
    \/ ListInstallInitializePage
    \/ ListInstallBack
    \/ InstallInitializePage
    \/ ThreadStartProcess
    \/ ProcessOutput
    \/ ProcessExit
    \/ ThreadWaitReturns
    \/ ThreadCompleted
    \/ UiHandleEvent
    \/ InstallNext
    \/ WizardAccept
    \/ FinishRestart
    \/ WizardReject

FlowSpec == FlowInit /\ [][FlowNext]_vars

\* FlowSpec with a worker thread and a UI thread that are scheduled fairly
\* and external processes that exit.
FlowFairSpec ==
    /\ FlowSpec
    /\ WF_vars(ThreadStartProcess)
    /\ WF_vars(ProcessExit)
    /\ WF_vars(ThreadWaitReturns)
    /\ WF_vars(ThreadCompleted)
    /\ WF_vars(UiHandleEvent)

\* ---- claims about the Selection page ----
Boxes == DOMAIN checkboxes

\* The operator's last action on the page was a click that left `name`
\* checked (TRUE) or unchecked (FALSE).
Checked(n) == n \in Boxes /\ checkboxes[n].checked
JustChecked == last.name # "" /\ last.checked
JustUnchecked == last.name # "" /\ ~last.checked

\* The direct dependencies of an entry that have a row on the page.
DirectDeps(n) == {d \in Boxes : DependsOn(catalog, n, d)}

\* C13: after the operator checks an entry, the entry is checked and every
\* direct dependency of it that is in the catalog is checked and disabled.
C13_CheckPropagates ==
    JustChecked =>
        /\ checkboxes[last.name].checked
        /\ \A d \in DirectDeps(last.name) :
               checkboxes[d].checked /\ ~checkboxes[d].enabled

\* Scenario A: dsp-pack, which depends on core-viz, has just been checked.
C13_Witness ==
    /\ JustChecked /\ last.name = "dsp-pack"
    /\ "core-viz" \in DirectDeps("dsp-pack")
    /\ ~last.before["core-viz"].checked
    /\ checkboxes["core-viz"].checked /\ ~checkboxes["core-viz"].enabled

\* Some checked entry other than n lists d as a dependency.
OtherCheckedDependent(cb, n, d) ==
    \E m \in DOMAIN cb : m # n /\ cb[m].checked /\ DependsOn(catalog, m, d)

\* C14: after the operator unchecks an entry, every direct dependency of it
\* that is not installed, not manually checked and not a dependency of
\* another checked entry is unchecked and enabled.
C14_UncheckReleases ==
    JustUnchecked =>
        \A d \in DirectDeps(last.name) :
            (/\ d \notin installed_modules
             /\ ~checkboxes[d].manual
             /\ ~OtherCheckedDependent(checkboxes, last.name, d))
                => ~checkboxes[d].checked /\ checkboxes[d].enabled

\* Scenario B: dsp-pack has just been unchecked and core-viz, which it had
\* pulled in, is released.
C14_Witness ==
    /\ JustUnchecked /\ last.name = "dsp-pack"
    /\ "core-viz" \in DirectDeps("dsp-pack")
    /\ last.before["core-viz"].checked /\ ~last.before["core-viz"].enabled
    /\ ~checkboxes["core-viz"].checked /\ checkboxes["core-viz"].enabled

\* C15: after the operator unchecks an entry, a direct dependency D of it
\* that the operator had checked manually is still checked, and D is disabled
\* exactly when another checked entry lists D as a dependency.
C15_ManualCheckSurvives ==
    JustUnchecked =>
        \A d \in DirectDeps(last.name) :
            last.before[d].manual =>
                /\ checkboxes[d].checked
                /\ ~checkboxes[d].enabled
                       <=> OtherCheckedDependent(checkboxes, last.name, d)

\* Both outcomes: a manually checked D released (enabled, checked), and a
\* manually checked D held disabled by another checked dependent.
C15_Witness ==
    /\ JustUnchecked
    /\ \E d \in DirectDeps(last.name) :
           /\ last.before[d].manual /\ ~last.before[d].enabled
           /\ checkboxes[d].checked /\ checkboxes[d].enabled

C15_WitnessHeld ==
    /\ JustUnchecked
    /\ \E d \in DirectDeps(last.name) :
           /\ last.before[d].manual
           /\ OtherCheckedDependent(checkboxes, last.name, d)
           /\ checkboxes[d].checked /\ ~checkboxes[d].enabled

C16_Witness ==
    /\ JustUnchecked
    /\ \E d \in DirectDeps(last.name) :
           /\ ~last.before[d].manual
           /\ d \notin installed_modules
           /\ OtherCheckedDependent(checkboxes, last.name, d)
           /\ checkboxes[d].checked /\ ~checkboxes[d].enabled

\* C17: when the operator unchecks an entry that was checked and enabled and
\* immediately checks it again, every direct and transitive dependency of the
\* entry has the checked, enabled and manually_checked values it had before
\* the uncheck.
C17_ToggleRestores ==
    last.unchecked_from # <<>> =>
        \A d \in TransitiveDeps(catalog, last.name) \cap Boxes :
            checkboxes[d] = last.unchecked_from[d]

\* An uncheck that released a dependency of a dependency, followed by the
\* check that restored it.
C17_Witness ==
    /\ last.unchecked_from # <<>>
    /\ \E d \in TransitiveDeps(catalog, last.name) \cap Boxes :
           /\ d \notin DirectDeps(last.name)
           /\ last.before[d] # checkboxes[d]
           /\ checkboxes[d] = last.unchecked_from[d]

\* C18: the list that get_install_modules returned holds exactly the entries
\* whose checkbox is checked and that are not in installed_modules, each once;
\* it holds no installed entry.
C18_InstallListIsCheckedMinusInstalled ==
    wizard_page = "ListInstall" =>
        /\ Range(install_modules) = {n \in Boxes : Checked(n)} \ installed_modules
        /\ NoDuplicates(install_modules)
        /\ Range(install_modules) \cap installed_modules = {}

\* The list is shown with an installed entry checked and left out, and
\* another checked entry in it.
C18_Witness ==
    /\ wizard_page = "ListInstall"
    /\ install_modules # <<>>
    /\ \E n \in installed_modules : Checked(n)

\* C19: every catalog entry that is in installed_modules is checked and
\* disabled, whatever the operator has toggled.
C19_InstalledCheckedAndDisabled ==
    \A n \in installed_modules \cap Boxes :
        checkboxes[n].checked /\ ~checkboxes[n].enabled

\* C20: every direct or transitive dependency, present in the catalog, of a
\* checked entry is checked.
C20_DependenciesOfCheckedAreChecked ==
    \A n \in Boxes :
        checkboxes[n].checked =>
            \A d \in TransitiveDeps(catalog, n) \cap Boxes : checkboxes[d].checked

\* Some checked entry lists d as a dependency.
CheckedDependent(d) ==
    \E m \in Boxes : checkboxes[m].checked /\ DependsOn(catalog, m, d)

\* C21: an entry of the page is enabled exactly when it is not installed and
\* no checked entry lists it as a dependency.
C21_EnabledIffFree ==
    \A n \in Boxes :
        checkboxes[n].enabled <=> (n \notin installed_modules /\ ~CheckedDependent(n))

\* C22: when on_checkbox_changed has run for a click of the operator, the
\* list self.modules it consulted holds no entry whose platform differs from
\* the platform of the host.
C22_ModulesArePlatformFiltered ==
    last.name # "" =>
        \A i \in 1..Len(modules) : ~catalog[modules[i]].foreign

\* C30: the manually_checked flag of an entry changes only in a step in which
\* the operator clicks the checkbox of that entry, and after a click the flag
\* of the clicked entry is the clicked state; propagation to other entries
\* leaves their flags as they were.
C30_ManualFlagOnlyByOwnClick ==
    /\ [](last.name # "" =>
            /\ checkboxes[last.name].manual = last.checked
            /\ \A m \in Boxes \ {last.name} :
                   checkboxes[m].manual = last.before[m].manual)
    /\ [][\A n \in Boxes :
              /\ n \in DOMAIN checkboxes'
              /\ checkboxes'[n].manual # checkboxes[n].manual =>
                     (last'.name = n /\ last'.before = checkboxes)]_vars

\* A click whose propagation changed the check state of another entry that
\* the operator had checked by hand or not, the flag of that entry unchanged.
C30_Witness ==
    /\ last.name # ""
    /\ \E m \in Boxes \ {last.name} :
           /\ checkboxes[m].checked # last.before[m].checked
           /\ checkboxes[m].manual = last.before[m].manual
    /\ \E m \in Boxes \ {last.name} : checkboxes[m].manual

\* ---- claims about the page flow and the install thread ----

\* The position of a page in the order the pages were added (lines 42-48).
PageIndex(p) == CHOOSE i \in 1..Len(PageSeq) : PageSeq[i] = p

\* C23 as stated: the pages are visited in the order Welcome, Selection,
\* ListInstall (Confirmation), Install, Finish, and no step shows a page that
\* comes earlier in that order than the page shown before it.
C23_NoTransitionBack ==
    [][(wizard_page' # wizard_page /\ wizard_page' # "closed") =>
          PageIndex(wizard_page') > PageIndex(wizard_page)]_vars

\* C23 with Back: a step that changes the page closes the wizard, shows the
\* next page of the order, or shows the page before it, the last only from
\* the Selection and the ListInstall page; once the Install page has been
\* shown no earlier page is shown again, and after a failed fetch the
\* Selection page is left only by closing the wizard.
C23_LinearUpToBack ==
    [][wizard_page' # wizard_page =>
          /\ wizard_page \in Range(PageSeq)
          /\ \/ wizard_page' = "closed"
             \/ /\ wizard_page' \in Range(PageSeq)
                /\ ~no_connection
                /\ \/ PageIndex(wizard_page') = PageIndex(wizard_page) + 1
                   \/ /\ PageIndex(wizard_page') = PageIndex(wizard_page) - 1
                      /\ wizard_page \in {"Selection", "ListInstall"}]_vars

\* The Finish page is shown after install processes have run.
C23_Witness ==
    /\ wizard_page = "Finish"
    /\ Len(processes) = 2
    /\ completed_installation

\* C24: after get_modules raised URLError in initializePage of the Selection
\* page, the page shows the explanation and is the last page: ListInstall,
\* Install and Finish are no pages of the wizard, none of them is shown, and
\* no install thread and no install process is started.
C24_NoConnectionIsTerminal ==
    no_connection =>
        /\ wizard_page \in {"Selection", "closed"}
        /\ pages = {"Welcome", "Selection"}
        /\ threads_started = 0
        /\ install_thread = NoThread
        /\ processes = <<>>

\* The fetch failed when the Selection page was initialised again after Back,
\* with the checkboxes of the first fetch on the page and one of them checked.
C24_Witness ==
    /\ no_connection
    /\ wizard_page = "Selection"
    /\ \E n \in Boxes : checkboxes[n].checked /\ n \notin installed_modules

\* C25: the processes are started in the order of the list of the thread,
\* one per job; only the process started last can be running, every process
\* started before it has exited or could not be started.
C25_JobsRunSequentially ==
    /\ Len(processes) <= Len(install_thread.modules)
    /\ \A i \in 1..Len(processes) :
           /\ processes[i].module = install_thread.modules[i]
           /\ i < Len(processes) => processes[i].state # "running"
    /\ Cardinality({i \in 1..Len(processes) :
                       processes[i].state = "running"}) <= 1
    /\ install_thread.pc = "loop" => ~ProcessRunning

\* The process of the second job is running and that of the first has exited.
C25_Witness ==
    /\ Len(processes) = 2
    /\ processes[1].state = "exited"
    /\ processes[2].state = "running"

\* isComplete of the Install page (lines 387-389).
IsComplete == completed_installation

\* C26: the Install page is complete only when the thread has gone through
\* its whole list and no process is running; while a process is running, or
\* a job is still to be started, the page is not complete.
C26_CompleteOnlyWhenAllJobsDone ==
    IsComplete =>
        /\ install_thread.pc = "finished"
        /\ Len(processes) = Len(install_thread.modules)
        /\ \A i \in 1..Len(processes) : processes[i].state # "running"

\* The page is complete after two jobs.
C26_Witness ==
    /\ IsComplete
    /\ Len(processes) = 2
    /\ wizard_page = "Install"

\* C27: the exit code of a process does not hold the thread: after a process
\* exited, with whatever code, the thread can go to the next job, after the
\* last job it can emit the completed signal, and the UI thread can handle
\* a signal that is queued.
C27_CompleteRegardlessOfExitCode ==
    /\ (alive /\ install_thread.pc = "wait" /\ ~ProcessRunning)
           => ENABLED ThreadWaitReturns
    /\ (alive /\ install_thread.pc = "loop"
              /\ install_thread.k > Len(install_thread.modules))
           => ENABLED ThreadCompleted
    /\ (alive /\ ui_events # <<>>) => ENABLED UiHandleEvent

\* The page is complete and a process exited with a non-zero code.
C27_Witness ==
    /\ IsComplete
    /\ Len(processes) = 2
    /\ \E i \in 1..Len(processes) :
           processes[i].state = "exited" /\ processes[i].code = 1

\* C31: InstallPage.initializePage runs at most once in a run of the wizard:
\* at most one InstallThread is started, it is started by the step from the
\* ListInstall page to the Install page, and no module name is given to two
\* install processes.
C31_InstallPageInitializedOnce ==
    /\ [](/\ threads_started <= 1
          /\ (install_thread # NoThread <=> threads_started = 1)
          /\ \A i, j \in 1..Len(processes) :
                 i # j => processes[i].module # processes[j].module)
    /\ [][threads_started' # threads_started =>
              /\ threads_started = 0
              /\ wizard_page = "ListInstall" /\ wizard_page' = "Install"]_vars

\* The wizard was closed after its one thread ran two jobs to the end.
C31_Witness ==
    /\ threads_started = 1
    /\ install_thread.pc = "finished"
    /\ Len(processes) = 2
    /\ wizard_page = "closed"

\* C32: the log install_output and the flag completed_installation change
\* only in a step of the UI thread that takes the signal at the head of the
\* queue of the worker, append_output for an output signal and set_completed
\* for the completed signal; in such a step the worker and its processes do
\* not move.
C32_UiStateOnlyThroughSignals ==
    [][(install_output' # install_output
            \/ completed_installation' # completed_installation) =>
          /\ ui_events # <<>>
          /\ ui_events' = Tail(ui_events)
          /\ install_thread' = install_thread
          /\ processes' = processes
          /\ IF Head(ui_events).type = "output"
             THEN /\ install_output' =
                        Append(install_output, Head(ui_events).text)
                  /\ completed_installation' = completed_installation
             ELSE /\ completed_installation'
                  /\ install_output' = install_output]_vars

\* Output was appended to the log and the page is complete.
C32_Witness ==
    /\ install_output # <<>>
    /\ completed_installation
    /\ ui_events = <<>>

\* C33: the list of the thread is the list shown on the ListInstall page and
\* holds each entry that is checked and not installed once and no other
\* name; the processes started are those of the list, one per entry in its
\* order, and all of them when the thread has finished.
C33_OneJobPerSelectedModule ==
    install_thread # NoThread =>
        /\ install_thread.modules = install_modules
        /\ Range(install_thread.modules) =
               {n \in Boxes : checkboxes[n].checked /\ n \notin installed_modules}
        /\ NoDuplicates(install_thread.modules)
        /\ Len(processes) <= Len(install_thread.modules)
        /\ \A i \in 1..Len(processes) :
               processes[i].module = install_thread.modules[i]
        /\ install_thread.pc = "finished" =>
               Len(processes) = Len(install_thread.modules)

\* The thread finished two jobs while an installed entry was checked.
C33_Witness ==
    /\ install_thread.pc = "finished"
    /\ Len(install_thread.modules) = 2
    /\ \E n \in Boxes : checkboxes[n].checked /\ n \in installed_modules

\* ---- further claims about the Selection page ----

\* C35: an initialisation of the Selection page that finds checkboxes does
\* not generate them again: the checkboxes and the checked, enabled and
\* manually_checked state of each are what they were before it.
C35_ReinitKeepsCheckboxes ==
    [][(wizard_page = "Welcome" /\ wizard_page' = "Selection"
            /\ DOMAIN checkboxes # {}) =>
          checkboxes' = checkboxes]_vars

\* The Selection page after a second initialisation (self.modules is the
\* unfiltered list), with a checkbox the operator checked and a checkbox
\* that propagation disabled.
C35_Witness ==
    /\ wizard_page = "Selection"
    /\ last = NoClick
    /\ Len(modules) > Cardinality(Boxes)
    /\ \E n \in Boxes : checkboxes[n].manual
    /\ \E n \in Boxes : ~checkboxes[n].enabled /\ n \notin installed_modules

\* C36: the step that generates the checkboxes raises no exception, and in
\* the state it leaves every installed entry is checked and disabled and
\* every other entry is unchecked and enabled.
C36_GeneratedState ==
    [][(wizard_page = "Welcome" /\ wizard_page' = "Selection"
            /\ DOMAIN checkboxes = {}) =>
          /\ ~key_error'
          /\ \A n \in DOMAIN checkboxes' :
                 /\ checkboxes'[n].checked = (n \in installed_modules)
                 /\ checkboxes'[n].enabled = (n \notin installed_modules)]_vars

\* C37: an entry whose manually_checked flag is true is checked.
C37_ManualImpliesChecked ==
    \A n \in Boxes : checkboxes[n].manual => checkboxes[n].checked

\* The operator unchecked an entry one of whose dependencies they had checked
\* by hand; the dependency is still checked.
C37_Witness ==
    /\ JustUnchecked
    /\ \E d \in DirectDeps(last.name) :
           /\ last.before[d].manual
           /\ checkboxes[d].manual
           /\ ~CheckedDependent(d)

\* The modules get_install_modules returns in the current state.
InstallSet == Range(GetInstallModules(checkboxes, NameSeq))

\* C38: every dependency, with a row on the page, of a module that
\* get_install_modules returns is installed or is returned too.
C38_InstallSetDependencyClosed ==
    \A n \in InstallSet :
        \A d \in DirectDeps(n) :
            d \in installed_modules \/ d \in InstallSet

\* ---- claims about the output of the install thread ----

\* The texts of the output signals that are queued, oldest first.
RECURSIVE QueuedTexts(_)
QueuedTexts(q) ==
    IF q = <<>> THEN <<>>
    ELSE IF Head(q).type = "output" THEN <<Head(q).text>> \o QueuedTexts(Tail(q))
    ELSE QueuedTexts(Tail(q))

\* The elements of a sequence of texts that are not the empty text.
RECURSIVE NonEmptyTexts(_)
NonEmptyTexts(q) ==
    IF q = <<>> THEN <<>>
    ELSE IF Head(q) > 0 THEN <<Head(q)>> \o NonEmptyTexts(Tail(q))
    ELSE NonEmptyTexts(Tail(q))

\* C39: the log followed by the queued output is the output in the order the
\* worker emitted it (the texts are numbered as they are emitted); the log
\* only grows at its end; no output signal is queued behind the completed
\* signal, and when the page is complete no signal is queued: every output
\* the worker emitted is in the log.
C39_OutputInOrderBeforeComplete ==
    /\ [](/\ NonEmptyTexts(install_output \o QueuedTexts(ui_events))
                 = [i \in 1..TextLines |-> i]
          /\ \A i, j \in 1..Len(ui_events) :
                 (i < j /\ ui_events[i].type = "completed")
                     => ui_events[j].type # "output"
          /\ completed_installation =>
                 (ui_events = <<>> /\ install_thread.pc = "finished"))
    /\ [][install_output' # install_output =>
              /\ Len(install_output') = Len(install_output) + 1
              /\ SubSeq(install_output', 1, Len(install_output)) = install_output
              /\ ui_events # <<>>
              /\ install_output'[Len(install_output')] = Head(ui_events).text]_vars

\* The page is complete with two texts in the log, the second emitted by
\* the second job together with an empty text.
C39_Witness ==
    /\ completed_installation
    /\ NonEmptyTexts(install_output) = <<1, 2>>
    /\ Len(install_output) > 2

\* C40: once the install thread is started the Install page becomes
\* complete, also when the list of the thread is empty, and a complete page
\* stays complete.
C40_EventuallyComplete ==
    /\ (install_thread # NoThread) ~> IsComplete
    /\ [][IsComplete => IsComplete']_vars

\* The page is complete after a thread with an empty list.
C40_Witness ==
    /\ IsComplete
    /\ install_thread.pc = "finished"
    /\ install_thread.modules = <<>>

====
